---- MODULE Spec2Model ----
(***************************************************************************)
(* A model of src/app.py: the Streamlit page main(), the process-wide      *)
(* cached index builder load_and_process_documents(), the clear_query      *)
(* callback, and the library calls the page makes (JSONLoader,             *)
(* RecursiveCharacterTextSplitter, FAISS, the retriever and the chain),    *)
(* each modelled by what the call does with the arguments app.py passes.   *)
(*                                                                         *)
(* Text is a sequence of one-character strings; "" is <<>>.                *)
(***************************************************************************)
EXTENDS Integers, Sequences, FiniteSets, TLC

\* ------------------------------------------------------------------------
\* Bounds of the model
\* ------------------------------------------------------------------------

\* longest document text drawn for the chunking specification
MaxLen == 4

\* most records in data.jsonl
MaxDocs == 7

\* the ghost counter of chain invocations since the last submit saturates here
MaxAttempts == 2

\* ------------------------------------------------------------------------
\* Program constants
\* ------------------------------------------------------------------------

\* RecursiveCharacterTextSplitter(chunk_size=1000, ...)
chunk_size == 1000

\* RecursiveCharacterTextSplitter(..., chunk_overlap=100)
chunk_overlap == 100

\* as_retriever(search_kwargs={"k": 5})
k == 5

\* ------------------------------------------------------------------------
\* Python values
\* ------------------------------------------------------------------------

\* a key that is not in a mapping
PyAbsent == [kind |-> "absent", val |-> <<>>]

\* None
PyNone == [kind |-> "none", val |-> <<>>]

\* a str
Str(t) == [kind |-> "str", val |-> t]

\* bool(v) of None or a str: only a non-empty str is true
Truthy(v) == v.kind = "str" /\ v.val # <<>>

Min(a, b) == IF a <= b THEN a ELSE b

\* ------------------------------------------------------------------------
\* Text
\* ------------------------------------------------------------------------

\* the characters str.strip() removes
IsSpace(c) == c \in {" ", "\n"}

RECURSIVE LStrip(_)
LStrip(t) == IF t # <<>> /\ IsSpace(Head(t)) THEN LStrip(Tail(t)) ELSE t

RECURSIVE RStrip(_)
RStrip(t) ==
    IF t # <<>> /\ IsSpace(t[Len(t)]) THEN RStrip(SubSeq(t, 1, Len(t) - 1)) ELSE t

\* str.strip()
Strip(t) == RStrip(LStrip(t))

\* s.join(parts)
RECURSIVE Join(_, _)
Join(parts, s) ==
    IF parts = <<>> THEN <<>>
    ELSE IF Len(parts) = 1 THEN parts[1]
    ELSE parts[1] \o s \o Join(Tail(parts), s)

\* re.search(re.escape(s), text) for a non-empty s
Contains(text, s) ==
    \E i \in 1..Len(text) : i + Len(s) - 1 <= Len(text) /\ SubSeq(text, i, i + Len(s) - 1) = s

\* the pieces between the leftmost non-overlapping occurrences of s
RECURSIVE RawSplit(_, _, _)
RawSplit(t, s, cur) ==
    IF t = <<>> THEN <<cur>>
    ELSE IF Len(t) >= Len(s) /\ SubSeq(t, 1, Len(s)) = s
         THEN <<cur>> \o RawSplit(SubSeq(t, Len(s) + 1, Len(t)), s, <<>>)
         ELSE RawSplit(Tail(t), s, Append(cur, Head(t)))

RECURSIVE DropEmpty(_)
DropEmpty(parts) ==
    IF parts = <<>> THEN <<>>
    ELSE IF Head(parts) = <<>> THEN DropEmpty(Tail(parts))
    ELSE <<Head(parts)>> \o DropEmpty(Tail(parts))

\* _split_text_with_regex(text, separator, keep_separator=True): each separator
\* stays at the start of the piece that follows it; "" splits into characters
SplitKeep(text, s) ==
    IF s = <<>> THEN [i \in 1..Len(text) |-> <<text[i]>>]
    ELSE LET raw == RawSplit(text, s, <<>>)
         IN DropEmpty([i \in 1..Len(raw) |-> IF i = 1 THEN raw[1] ELSE s \o raw[i]])

\* ------------------------------------------------------------------------
\* RecursiveCharacterTextSplitter(chunk_size=1000, chunk_overlap=100)
\* ------------------------------------------------------------------------

\* the default separators: "\n\n", "\n", " ", ""
Separators == << <<"\n", "\n">>, <<"\n">>, <<" ">>, <<>> >>

\* _join_docs as it would be with strip_whitespace=False: the chunk is not stripped
JoinDocsNoStrip(parts, s) ==
    LET text == Join(parts, s)
    IN IF text = <<>> THEN <<>> ELSE <<text>>

\* _join_docs: the joined text stripped; nothing when that is empty
JoinDocs(parts, s) ==
    LET text == Strip(Join(parts, s))
    IN IF text = <<>> THEN <<>> ELSE <<text>>

\* the extra length a separator adds when n pieces are already held
SepLen(s, more) == IF more THEN Len(s) ELSE 0

\* _merge_splits' inner while loop: drop pieces from the front of current_doc
\* until the overlap is kept and the next piece fits
RECURSIVE PopFront(_, _, _, _)
PopFront(cur, total, len, s) ==
    IF total > chunk_overlap
       \/ (total + len + SepLen(s, Len(cur) > 0) > chunk_size /\ total > 0)
    THEN PopFront(Tail(cur), total - (Len(cur[1]) + SepLen(s, Len(cur) > 1)), len, s)
    ELSE [cur |-> cur, total |-> total]

\* _merge_splits: the loop over the splits, then the last join
RECURSIVE MergeLoop(_, _, _, _, _, _)
MergeLoop(splits, i, s, docs, cur, total) ==
    IF i > Len(splits) THEN docs \o JoinDocs(cur, s)
    ELSE
      LET d == splits[i]
          len == Len(d)
          over == total + len + SepLen(s, Len(cur) > 0) > chunk_size
          docs1 == IF over /\ Len(cur) > 0 THEN docs \o JoinDocs(cur, s) ELSE docs
          kept == IF over /\ Len(cur) > 0 THEN PopFront(cur, total, len, s)
                  ELSE [cur |-> cur, total |-> total]
          cur1 == Append(kept.cur, d)
          total1 == kept.total + len + SepLen(s, Len(cur1) > 1)
      IN MergeLoop(splits, i + 1, s, docs1, cur1, total1)

MergeSplits(splits, s) == MergeLoop(splits, 1, s, <<>>, <<>>, 0)

\* the first separator that is "" or occurs in the text
RECURSIVE PickSeparator(_, _, _)
PickSeparator(text, seps, i) ==
    IF i > Len(seps) THEN [sep |-> seps[Len(seps)], rest |-> <<>>]
    ELSE IF seps[i] = <<>> THEN [sep |-> <<>>, rest |-> <<>>]
    ELSE IF Contains(text, seps[i])
         THEN [sep |-> seps[i], rest |-> SubSeq(seps, i + 1, Len(seps))]
         ELSE PickSeparator(text, seps, i + 1)

RECURSIVE SplitTextRec(_, _)
RECURSIVE SplitLoop(_, _, _, _, _)

\* _split_text's loop: pieces under the budget are collected and merged, a
\* piece at or over it is split again with the remaining separators
SplitLoop(splits, i, rest, good, final) ==
    LET flushed == IF good # <<>> THEN final \o MergeSplits(good, <<>>) ELSE final
    IN IF i > Len(splits) THEN flushed
       ELSE IF Len(splits[i]) < chunk_size
            THEN SplitLoop(splits, i + 1, rest, Append(good, splits[i]), final)
            ELSE SplitLoop(splits, i + 1, rest, <<>>,
                           flushed \o (IF rest = <<>> THEN <<splits[i]>>
                                       ELSE SplitTextRec(splits[i], rest)))

\* _split_text(text, separators)
SplitTextRec(text, seps) ==
    LET p == PickSeparator(text, seps, 1)
    IN SplitLoop(SplitKeep(text, p.sep), 1, p.rest, <<>>, <<>>)

\* split_text(text)
SplitText(text) == SplitTextRec(text, Separators)

\* ------------------------------------------------------------------------
\* Documents
\* ------------------------------------------------------------------------

\* Document(page_content, metadata)
Document(text, meta) == [page_content |-> text, metadata |-> meta]

\* the chunks of one document, each with a copy of the document's metadata
ChunksOf(d) ==
    LET parts == SplitText(d.page_content)
    IN [i \in 1..Len(parts) |-> Document(parts[i], d.metadata)]

\* split_documents(documents)
RECURSIVE SplitDocuments(_)
SplitDocuments(docs) ==
    IF docs = <<>> THEN <<>> ELSE ChunksOf(Head(docs)) \o SplitDocuments(Tail(docs))

\* ------------------------------------------------------------------------
\* data.jsonl and JSONLoader
\* ------------------------------------------------------------------------

\* the texts, titles and types of the records a data.jsonl is drawn from
CorpusTexts ==
    << <<" ">>, <<"a">>, <<" ", "b">>, <<"b", "\n", "a">>,
       <<"a", "b">>, <<"b">>, <<"a", " ">>, <<"a", "a">>, <<"b", "b">> >>

CorpusTitles ==
    <<"RM-001", "RM-002", "RM-003", "RM-004", "RM-005", "RM-006", "RM-007", "RM-008",
      "RM-009">>

CorpusTypes == <<"Resolucion", "Decreto", "Nombramiento">>

\* line i of a well-formed data.jsonl: one JSON object
RecordAt(i) ==
    [valid |-> TRUE,
     texto_completo |-> CorpusTexts[((i - 1) % Len(CorpusTexts)) + 1],
     titulo |-> CorpusTitles[((i - 1) % Len(CorpusTitles)) + 1],
     tipo |-> CorpusTypes[((i - 1) % Len(CorpusTypes)) + 1]]

\* a line that is not JSON
BadLine == [valid |-> FALSE, texto_completo |-> <<>>, titulo |-> "", tipo |-> ""]

\* the states of ./data.jsonl: missing, malformed, or n records
DataFiles ==
    {[exists |-> FALSE, lines |-> <<>>], [exists |-> TRUE, lines |-> <<RecordAt(1), BadLine>>]}
    \cup {[exists |-> TRUE, lines |-> [i \in 1..n |-> RecordAt(i)]] : n \in 0..MaxDocs}

\* the metadata JSONLoader gives a document when no metadata_func is passed
LoaderMetadata(line, i) == [source |-> "data.jsonl", seq_num |-> i]

\* JSONLoader(file_path='./data.jsonl', jq_schema='.texto_completo',
\*            text_content=False, json_lines=True).load()
JSONLoaderLoad(file) ==
    IF ~file.exists THEN [exc |-> "FileNotFoundError", docs |-> <<>>]
    ELSE IF \E i \in 1..Len(file.lines) : ~file.lines[i].valid
         THEN [exc |-> "JSONDecodeError", docs |-> <<>>]
         ELSE [exc |-> "none",
               docs |-> [i \in 1..Len(file.lines) |->
                           Document(file.lines[i].texto_completo,
                                    LoaderMetadata(file.lines[i], i))]]

\* metadata.get(key, default)
MetadataGet(meta, key, default) == IF key \in DOMAIN meta THEN meta[key] ELSE default

\* ------------------------------------------------------------------------
\* Embeddings, the FAISS index and the retriever
\* ------------------------------------------------------------------------

\* the vector store a failed build leaves: None
NoStore == [kind |-> "none", docs |-> <<>>]

\* not vector_store
StoreMissing(store) == store.kind = "none"

\* the embedding of a text: a deterministic function of the text
RECURSIVE Embed(_)
Embed(t) ==
    IF t = <<>> THEN 0
    ELSE (IF Head(t) = "a" THEN 1 ELSE IF Head(t) = "b" THEN 3 ELSE 0) + Embed(Tail(t))

\* FAISS.from_documents(chunks, embeddings): no index can be made of no chunk
FAISSFromDocuments(chunks) ==
    IF chunks = <<>> THEN [exc |-> "IndexError", store |-> NoStore]
    ELSE [exc |-> "none", store |-> [kind |-> "faiss", docs |-> chunks]]

\* the squared L2 distance of a question to chunk i
Distance(store, q, i) ==
    (Embed(q) - Embed(store.docs[i].page_content)) * (Embed(q) - Embed(store.docs[i].page_content))

\* chunk i is nearer to q than chunk j (the earlier chunk first on a tie)
Nearer(store, q, i, j) ==
    \/ Distance(store, q, i) < Distance(store, q, j)
    \/ Distance(store, q, i) = Distance(store, q, j) /\ i < j

\* index.search(vector, n): the n nearest chunk positions, nearest first,
\* padded with -1 when the index holds fewer than n
RECURSIVE IndexSearch(_, _, _, _)
IndexSearch(store, q, n, left) ==
    IF n = 0 THEN <<>>
    ELSE IF left = {} THEN <<-1>> \o IndexSearch(store, q, n - 1, left)
    ELSE LET best == CHOOSE i \in left : \A j \in left \ {i} : Nearer(store, q, i, j)
         IN <<best>> \o IndexSearch(store, q, n - 1, left \ {best})

RECURSIVE DocsAt(_, _)
DocsAt(store, idx) ==
    IF idx = <<>> THEN <<>>
    ELSE IF Head(idx) = -1 THEN DocsAt(store, Tail(idx))
    ELSE <<store.docs[Head(idx)]>> \o DocsAt(store, Tail(idx))

\* the retriever as it would be with search_kwargs dropped: every chunk, ranked
RetrieverInvokeAll(store, q) ==
    DocsAt(store, IndexSearch(store, q, Len(store.docs), 1..Len(store.docs)))

\* vector_store.as_retriever(search_kwargs={"k": 5}).invoke(q)
RetrieverInvoke(store, q) ==
    DocsAt(store, IndexSearch(store, q, k, 1..Len(store.docs)))

\* format_docs(docs)
FormatDocs(docs) == Join([i \in 1..Len(docs) |-> docs[i].page_content], <<"\n", "\n">>)

\* the label and body of the expander shown for one source document
Citation(d) ==
    [tipo |-> MetadataGet(d.metadata, "tipo", "Documento"),
     titulo |-> MetadataGet(d.metadata, "titulo", "Sin titulo disponible"),
     code |-> d.page_content]

\* ------------------------------------------------------------------------
\* load_and_process_documents
\* ------------------------------------------------------------------------

\* the body of load_and_process_documents: the vector store it returns and
\* the st.error messages it emits
LoadAndProcessDocuments(file) ==
    LET loaded == JSONLoaderLoad(file)
        chunks == SplitDocuments(loaded.docs)
        built == FAISSFromDocuments(chunks)
    IN IF loaded.exc = "FileNotFoundError"
       THEN [value |-> NoStore, msgs |-> <<"data_not_found">>]
       ELSE IF loaded.exc # "none" \/ built.exc # "none"
            THEN [value |-> NoStore, msgs |-> <<"processing_error">>]
            ELSE [value |-> built.store, msgs |-> <<>>]

\* ------------------------------------------------------------------------
\* State
\* ------------------------------------------------------------------------

VARIABLES
    GEMINI_API_KEY,   \* os.getenv("GEMINI_API_KEY"), read once at import
    dataFile,         \* ./data.jsonl
    cache,            \* st.cache_resource's entry for load_and_process_documents
    lock,             \* the session computing the cached value, or "free"
    buildCount,       \* how many times the body of load_and_process_documents ran
    pc,               \* each session's position in a run of main()
    trigger,          \* what started the session's current run: open, submit, clear
    vector_store,     \* main()'s local vector_store
    session_state,    \* st.session_state: user_query_input and query_to_process
    formShown,        \* the session's last run rendered the form and its buttons
    page,             \* what the session's current run has emitted and called
    attempts,         \* chain invocations since the session's last submit
    failed,           \* a model call failed since the session's last submit
    retried,          \* the chain was invoked again after such a failure
    doc,              \* chunking: the document text
    chunks,           \* chunking: the chunks split_documents returned
    phase             \* chunking: "app", "input" or "split"

appVars ==
    <<GEMINI_API_KEY, dataFile, cache, lock, buildCount, pc, trigger, vector_store,
      session_state, formShown, page, attempts, failed, retried>>

chunkVars == <<doc, chunks, phase>>

vars == <<appVars, chunkVars>>

\* the browser sessions of the one server process
Sessions == {"s1", "s2"}

\* what a user can type into the question field
Queries == {<<>>, <<"a">>, <<"b">>}

\* the characters of the documents drawn for the chunking specification
Chars == {"a", " ", "\n"}

Texts == UNION {[1..n -> Chars] : n \in 0..MaxLen}

\* the values os.getenv can give: unset, set to "", set to a key
Credentials == {PyNone, Str(<<>>), Str(<<"k">>)}

\* an empty page, at the start of a run
BlankPage ==
    [messages |-> <<>>, llm_built |-> FALSE, retrievals |-> 0, model_calls |-> 0,
     context_docs |-> <<>>, context |-> <<>>, question |-> PyNone,
     answered |-> FALSE, source_documents |-> <<>>, citations |-> <<>>,
     raised |-> FALSE, done |-> FALSE]

EmptyCache == [filled |-> FALSE, value |-> NoStore, msgs |-> <<>>]

AppInit ==
    /\ GEMINI_API_KEY \in Credentials
    /\ dataFile \in DataFiles
    /\ cache = EmptyCache
    /\ lock = "free"
    /\ buildCount = 0
    /\ pc = [s \in Sessions |-> "idle"]
    /\ trigger = [s \in Sessions |-> "open"]
    /\ vector_store = [s \in Sessions |-> NoStore]
    /\ session_state =
         [s \in Sessions |-> [user_query_input |-> <<>>, query_to_process |-> PyAbsent]]
    /\ formShown = [s \in Sessions |-> FALSE]
    /\ page = [s \in Sessions |-> BlankPage]
    /\ attempts = [s \in Sessions |-> 0]
    /\ failed = [s \in Sessions |-> FALSE]
    /\ retried = [s \in Sessions |-> FALSE]

Init ==
    /\ AppInit
    /\ doc = <<>>
    /\ chunks = <<>>
    /\ phase = "app"

\* ------------------------------------------------------------------------
\* What starts a run of main()
\* ------------------------------------------------------------------------

StartRun(s, how) ==
    /\ pc' = [pc EXCEPT ![s] = "load"]
    /\ trigger' = [trigger EXCEPT ![s] = how]
    /\ page' = [page EXCEPT ![s] = BlankPage]
    /\ UNCHANGED <<GEMINI_API_KEY, dataFile, cache, lock, buildCount, vector_store,
                   formShown, retried, chunkVars>>

\* the page is opened or rerun with no button pressed
Rerun(s) ==
    /\ pc[s] = "idle"
    /\ StartRun(s, "open")
    /\ UNCHANGED <<session_state, attempts, failed>>

\* the user types q and presses Consultar
SubmitPress(s, q) ==
    /\ pc[s] = "idle"
    /\ formShown[s]
    /\ StartRun(s, "submit")
    /\ session_state' = [session_state EXCEPT ![s].user_query_input = q]
    /\ attempts' = [attempts EXCEPT ![s] = 0]
    /\ failed' = [failed EXCEPT ![s] = FALSE]

\* clear_query(), the on_click callback of Limpiar Pregunta
clear_query(state) == [state EXCEPT !.user_query_input = <<>>]

\* the user presses Limpiar Pregunta: the callback runs, then main()
ClearPress(s) ==
    /\ pc[s] = "idle"
    /\ formShown[s]
    /\ StartRun(s, "clear")
    /\ session_state' = [session_state EXCEPT ![s] = clear_query(session_state[s])]
    /\ UNCHANGED <<attempts, failed>>

\* ------------------------------------------------------------------------
\* @st.cache_resource around load_and_process_documents
\* ------------------------------------------------------------------------

\* main() has its vector_store; a cached call replays the messages of the build
ReturnCached(s, entry) ==
    /\ vector_store' = [vector_store EXCEPT ![s] = entry.value]
    /\ page' = [page EXCEPT ![s].messages = @ \o entry.msgs]
    /\ pc' = [pc EXCEPT ![s] = "gate"]

\* the call finds the value in the cache
CacheHit(s) ==
    /\ pc[s] = "load"
    /\ cache.filled
    /\ ReturnCached(s, cache)
    /\ UNCHANGED <<GEMINI_API_KEY, dataFile, cache, lock, buildCount, trigger,
                   session_state, formShown, attempts, failed, retried, chunkVars>>

\* the call finds the cache empty
CacheMiss(s) ==
    /\ pc[s] = "load"
    /\ ~cache.filled
    /\ pc' = [pc EXCEPT ![s] = "miss"]
    /\ UNCHANGED <<GEMINI_API_KEY, dataFile, cache, lock, buildCount, trigger,
                   vector_store, session_state, formShown, page, attempts, failed,
                   retried, chunkVars>>

\* a cache whose misses are not serialised: the lock is never waited for
LockFreeAlways == TRUE

\* the lock a cache miss takes before computing is free
LockFree == lock = "free"

\* a cache miss takes the lock
AcquireLock(s) ==
    /\ pc[s] = "miss"
    /\ LockFree
    /\ lock' = s
    /\ pc' = [pc EXCEPT ![s] = "locked"]
    /\ UNCHANGED <<GEMINI_API_KEY, dataFile, cache, buildCount, trigger, vector_store,
                   session_state, formShown, page, attempts, failed, retried, chunkVars>>

\* under the lock the value is there now: another session built it meanwhile
RecheckHit(s) ==
    /\ pc[s] = "locked"
    /\ cache.filled
    /\ ReturnCached(s, cache)
    /\ lock' = "free"
    /\ UNCHANGED <<GEMINI_API_KEY, dataFile, cache, buildCount, trigger, session_state,
                   formShown, attempts, failed, retried, chunkVars>>

\* under the lock the cache is still empty: the body is to run
RecheckMiss(s) ==
    /\ pc[s] = "locked"
    /\ ~cache.filled
    /\ pc' = [pc EXCEPT ![s] = "body"]
    /\ UNCHANGED <<GEMINI_API_KEY, dataFile, cache, lock, buildCount, trigger,
                   vector_store, session_state, formShown, page, attempts, failed,
                   retried, chunkVars>>

\* the body of load_and_process_documents has run: its result, None included,
\* is cached and returned, and the lock is released
Build(s) ==
    /\ pc[s] = "body"
    /\ LET r == LoadAndProcessDocuments(dataFile)
           entry == [filled |-> TRUE, value |-> r.value, msgs |-> r.msgs]
       IN /\ cache' = entry
          /\ ReturnCached(s, entry)
    /\ buildCount' = buildCount + 1
    /\ lock' = "free"
    /\ UNCHANGED <<GEMINI_API_KEY, dataFile, trigger, session_state, formShown,
                   attempts, failed, retried, chunkVars>>

\* ------------------------------------------------------------------------
\* main() after load_and_process_documents has returned
\* ------------------------------------------------------------------------

\* the run ends; the session waits for the next event
EndRun(s, shown) ==
    /\ pc' = [pc EXCEPT ![s] = "idle"]
    /\ formShown' = [formShown EXCEPT ![s] = shown]
    /\ UNCHANGED <<GEMINI_API_KEY, dataFile, cache, lock, buildCount, trigger,
                   vector_store, chunkVars>>

\* main() as it would be without the check of the key
CredentialNeverMissing == FALSE

\* not GEMINI_API_KEY
CredentialMissing == ~Truthy(GEMINI_API_KEY)

\* main() as it would be without the check of the vector store
EngineNeverUnavailable(s) == FALSE

\* not vector_store, in the run of session s
EngineUnavailable(s) == StoreMissing(vector_store[s])

\* if not vector_store: st.error(...); return
RenderUnavailable(s) ==
    /\ pc[s] = "gate"
    /\ EngineUnavailable(s)
    /\ page' = [page EXCEPT ![s] =
                  [@ EXCEPT !.messages = Append(@, "engine_unavailable"), !.done = TRUE]]
    /\ EndRun(s, FALSE)
    /\ UNCHANGED <<session_state, attempts, failed, retried>>

\* if not GEMINI_API_KEY: st.warning(...); return
RenderNoKey(s) ==
    /\ pc[s] = "gate"
    /\ ~EngineUnavailable(s)
    /\ CredentialMissing
    /\ page' = [page EXCEPT ![s] =
                  [@ EXCEPT !.messages = Append(@, "key_warning"), !.done = TRUE]]
    /\ EndRun(s, FALSE)
    /\ UNCHANGED <<session_state, attempts, failed, retried>>

\* session_state['query_to_process'] when the form block is left: the field's
\* text on submit, None when the key was not there, else what it held
QueryToProcess(s) ==
    IF trigger[s] = "submit" THEN Str(session_state[s].user_query_input)
    ELSE IF session_state[s].query_to_process = PyAbsent THEN PyNone
    ELSE session_state[s].query_to_process

\* the run reaches the form: the model client, the retriever and the chain exist
ReachesForm(s) ==
    /\ pc[s] = "gate"
    /\ ~EngineUnavailable(s)
    /\ ~CredentialMissing

\* the form is rendered and there is no query to process
RenderForm(s) ==
    /\ ReachesForm(s)
    /\ ~Truthy(QueryToProcess(s))
    /\ session_state' = [session_state EXCEPT ![s].query_to_process = QueryToProcess(s)]
    /\ page' = [page EXCEPT ![s] = [@ EXCEPT !.llm_built = TRUE, !.done = TRUE]]
    /\ EndRun(s, TRUE)
    /\ UNCHANGED <<attempts, failed, retried>>

\* the ghost bookkeeping of one invocation of the chain
CountAttempt(s, fails) ==
    /\ attempts' = [attempts EXCEPT ![s] = Min(@ + 1, MaxAttempts)]
    /\ retried' = [retried EXCEPT ![s] = @ \/ failed[s]]
    /\ failed' = [failed EXCEPT ![s] = @ \/ fails]

\* the query is processed: the chain retrieves, formats and calls the model,
\* the retriever is called again for the citations, the answer and the
\* citations are rendered and query_to_process is reset
RenderAnswer(s) ==
    /\ ReachesForm(s)
    /\ Truthy(QueryToProcess(s))
    /\ LET q == QueryToProcess(s).val
           context_docs == RetrieverInvoke(vector_store[s], q)
           source_documents == RetrieverInvoke(vector_store[s], q)
       IN page' = [page EXCEPT ![s] =
                     [@ EXCEPT !.llm_built = TRUE,
                               !.retrievals = 2,
                               !.model_calls = 1,
                               !.context_docs = context_docs,
                               !.context = FormatDocs(context_docs),
                               !.question = Str(q),
                               !.answered = TRUE,
                               !.source_documents = source_documents,
                               !.citations = [i \in 1..Len(source_documents) |->
                                                Citation(source_documents[i])],
                               !.done = TRUE]]
    /\ session_state' = [session_state EXCEPT ![s].query_to_process = PyNone]
    /\ CountAttempt(s, FALSE)
    /\ EndRun(s, TRUE)

\* the query is processed and the hosted model call raises: the exception
\* leaves main(), the framework shows it, query_to_process keeps the query
RenderModelFails(s) ==
    /\ ReachesForm(s)
    /\ Truthy(QueryToProcess(s))
    /\ LET q == QueryToProcess(s).val
           context_docs == RetrieverInvoke(vector_store[s], q)
       IN page' = [page EXCEPT ![s] =
                     [@ EXCEPT !.llm_built = TRUE,
                               !.retrievals = 1,
                               !.model_calls = 1,
                               !.context_docs = context_docs,
                               !.context = FormatDocs(context_docs),
                               !.question = Str(q),
                               !.raised = TRUE,
                               !.messages = Append(@, "uncaught_exception"),
                               !.done = TRUE]]
    /\ session_state' = [session_state EXCEPT ![s].query_to_process = QueryToProcess(s)]
    /\ CountAttempt(s, TRUE)
    /\ EndRun(s, TRUE)

Next ==
    \E s \in Sessions :
        \/ Rerun(s)
        \/ \E q \in Queries : SubmitPress(s, q)
        \/ ClearPress(s)
        \/ CacheHit(s)
        \/ CacheMiss(s)
        \/ AcquireLock(s)
        \/ RecheckHit(s)
        \/ RecheckMiss(s)
        \/ Build(s)
        \/ RenderUnavailable(s)
        \/ RenderNoKey(s)
        \/ RenderForm(s)
        \/ RenderAnswer(s)
        \/ RenderModelFails(s)

Spec == Init /\ [][Next]_vars

\* ------------------------------------------------------------------------
\* The chunking step on its own
\* ------------------------------------------------------------------------

ChunkInit ==
    /\ AppInit
    /\ GEMINI_API_KEY = PyNone
    /\ dataFile = [exists |-> FALSE, lines |-> <<>>]
    /\ doc \in Texts
    /\ chunks = <<>>
    /\ phase = "input"

\* the one document JSONLoader makes of a record whose text is doc
LoadedDoc == Document(doc, [source |-> "data.jsonl", seq_num |-> 1])

\* chunks = text_splitter.split_documents(documents)
SplitStep ==
    /\ phase = "input"
    /\ chunks' = SplitDocuments(<<LoadedDoc>>)
    /\ phase' = "split"
    /\ UNCHANGED <<appVars, doc>>

ChunkNext == SplitStep

SpecChunk == ChunkInit /\ [][ChunkNext]_vars

\* ------------------------------------------------------------------------
\* Properties
\* ------------------------------------------------------------------------

\* the run of session s has ended
Rendered(s) == pc[s] = "idle" /\ page[s].done

\* session s's run attempted no retrieval and no hosted-model call
NoQueryPath(s) == page[s].retrievals = 0 /\ page[s].model_calls = 0

\* C1 as stated: while GEMINI_API_KEY is absent, every run of main() reports
\* the missing-credential warning, builds no model client and attempts no
\* retrieval and no model call.
C1_EveryRenderWarns ==
    GEMINI_API_KEY = PyNone =>
        \A s \in Sessions :
            /\ NoQueryPath(s)
            /\ ~page[s].llm_built
            /\ Rendered(s) => page[s].messages[Len(page[s].messages)] = "key_warning"

\* C1 amended: while GEMINI_API_KEY is absent or empty, no run builds the model
\* client or attempts a retrieval or a model call; a run whose index was built
\* reports exactly the missing-credential warning, and a run whose index is
\* unavailable reports that and not the warning.
C1_NoCallWithoutCredential ==
    ~Truthy(GEMINI_API_KEY) =>
        \A s \in Sessions :
            /\ NoQueryPath(s)
            /\ ~page[s].llm_built
            /\ Rendered(s) =>
                 IF vector_store[s].kind = "faiss"
                 THEN page[s].messages = <<"key_warning">>
                 ELSE page[s].messages[Len(page[s].messages)] = "engine_unavailable"

\* C1 witness: with no credential and an index built, a run ended on the warning
C1_Witness ==
    /\ GEMINI_API_KEY = PyNone
    /\ \E s \in Sessions :
         Rendered(s) /\ vector_store[s].kind = "faiss" /\ page[s].messages = <<"key_warning">>

\* data.jsonl is missing, or loading, splitting or indexing it raises
IngestionRaises ==
    \/ ~dataFile.exists
    \/ \E i \in 1..Len(dataFile.lines) : ~dataFile.lines[i].valid
    \/ \A i \in 1..Len(dataFile.lines) :
         \A j \in 1..Len(dataFile.lines[i].texto_completo) :
            IsSpace(dataFile.lines[i].texto_completo[j])

\* C2: when data.jsonl is missing or ingestion raises, no index is produced
\* (the cached result is None), no exception leaves main(), and every run
\* ends on the engine-unavailable error with no form shown and no retrieval
\* or model call.
C2_IngestionFailureDisablesQueries ==
    IngestionRaises =>
        /\ cache.filled => cache.value = NoStore
        /\ \A s \in Sessions :
             /\ NoQueryPath(s)
             /\ ~page[s].raised
             /\ ~page[s].llm_built
             /\ Rendered(s) =>
                  /\ page[s].messages[Len(page[s].messages)] = "engine_unavailable"
                  /\ ~formShown[s]

\* C2 witness: with data.jsonl missing, one session's run built nothing and
\* another's found None cached, and both ended on the engine-unavailable error
C2_Witness ==
    /\ ~dataFile.exists
    /\ buildCount = 1
    /\ \A s \in Sessions :
         Rendered(s) /\ page[s].messages = <<"data_not_found", "engine_unavailable">>

\* C3: the body of load_and_process_documents runs at most once in the
\* process, and every call returns the cached result of that one run.
C3_AtMostOneBuild ==
    /\ buildCount <= 1
    /\ \A s \in Sessions :
         (pc[s] = "gate" \/ Rendered(s)) =>
            /\ buildCount = 1
            /\ cache.filled
            /\ vector_store[s] = cache.value

\* C3 witness: two sessions missed the cache together, one built the index and
\* the other, having waited for the lock, is handed the cached result
C3_Witness ==
    /\ buildCount = 1
    /\ \E s, t \in Sessions :
         /\ s # t
         /\ pc[s] = "locked" /\ cache.filled
         /\ Rendered(t) /\ vector_store[t] = cache.value

\* C4 as stated: after a failed model call, no later run of the session sends
\* the query to the retriever or the model again without a new submit.
C4_NoRetryAfterFailure == \A s \in Sessions : ~retried[s]

\* C5 as stated: a run in which a single failure occurs (ingestion failure,
\* missing credential, or model-call failure) emits exactly one message.
C5_ExactlyOneMessage ==
    \A s \in Sessions :
        Rendered(s) =>
            /\ (EngineUnavailable(s) /\ ~CredentialMissing) => Len(page[s].messages) = 1
            /\ (~EngineUnavailable(s) /\ CredentialMissing) => Len(page[s].messages) = 1
            /\ page[s].raised => Len(page[s].messages) = 1

\* C7: the chunks placed in the context and the citations displayed are each
\* at most min(5, N) for an index of N chunks.
C7_AtMostKChunks ==
    \A s \in Sessions :
        /\ Len(page[s].context_docs) <= Min(k, Len(vector_store[s].docs))
        /\ Len(page[s].citations) <= Min(k, Len(vector_store[s].docs))

\* C7 witness: an answered query against an index of more than 5 chunks shows
\* exactly 5 citations
C7_Witness ==
    \E s \in Sessions :
        /\ Rendered(s) /\ page[s].answered
        /\ Len(vector_store[s].docs) > k
        /\ Len(page[s].context_docs) = k
        /\ Len(page[s].citations) = k

\* C8 as stated: every retrieved chunk carries the titulo and tipo of its
\* parent record, and its citation is tagged with them.
C8_CitationsCarryTitleAndType ==
    \A s \in Sessions :
        \A i \in 1..Len(page[s].source_documents) :
            LET d == page[s].source_documents[i]
                parent == dataFile.lines[d.metadata.seq_num]
            IN /\ MetadataGet(d.metadata, "titulo", "") = parent.titulo
               /\ MetadataGet(d.metadata, "tipo", "") = parent.tipo
               /\ page[s].citations[i].titulo = parent.titulo
               /\ page[s].citations[i].tipo = parent.tipo

\* every character of t is whitespace
Blank(t) == \A i \in 1..Len(t) : IsSpace(t[i])

\* c is t without its leading and trailing whitespace
TrimOf(c, t) ==
    \E i, j \in 1..Len(t) :
        /\ i <= j
        /\ c = SubSeq(t, i, j)
        /\ ~IsSpace(t[i]) /\ ~IsSpace(t[j])
        /\ \A m \in 1..(i - 1) : IsSpace(t[m])
        /\ \A m \in (j + 1)..Len(t) : IsSpace(t[m])

\* C9 as stated: a document shorter than the chunk budget yields exactly one
\* chunk whose text equals the document.
C9_OneChunkEqualToDocument ==
    (phase = "split" /\ Len(doc) < chunk_size) =>
        Len(chunks) = 1 /\ chunks[1].page_content = doc

\* C9 amended: a document shorter than the chunk budget yields exactly one
\* chunk, whose text is the document without its leading and trailing
\* whitespace (so the document itself when it has none), unless the document
\* is empty or all whitespace, which yields no chunk.
C9_OneStrippedChunk ==
    (phase = "split" /\ Len(doc) < chunk_size) =>
        IF Blank(doc) THEN chunks = <<>>
        ELSE /\ Len(chunks) = 1
             /\ TrimOf(chunks[1].page_content, doc)
             /\ chunks[1].metadata = LoadedDoc.metadata

\* C9 witness: a short document with separators inside and whitespace around
\* them came out as one chunk, stripped
C9_Witness ==
    /\ phase = "split"
    /\ doc = <<" ", "a", "\n", "a">>
    /\ Len(chunks) = 1
    /\ chunks[1].page_content = <<"a", "\n", "a">>

\* C10 as stated: each submit causes at most one processing of its query; runs
\* without a new submit make no retrieval or model call; an empty question
\* processes nothing.
C10_AtMostOneProcessingPerSubmit ==
    \A s \in Sessions :
        /\ attempts[s] <= 1
        /\ (Rendered(s) /\ trigger[s] # "submit") => NoQueryPath(s)
        /\ (Rendered(s) /\ trigger[s] = "submit" /\ session_state[s].user_query_input = <<>>)
              => NoQueryPath(s)

====
